---- MODULE Spec2Model ----
(***************************************************************************)
(* Model of src/visualization/app.py: a Streamlit script that loads two    *)
(* memoized CSV tables, filters them by the selected year, derives the     *)
(* season rankings and renders a sidebar table, a winner banner, a world   *)
(* map, a progression line chart and a points bar chart.  Streamlit reruns *)
(* the whole script, top to bottom, on every change of the year selector.  *)
(*                                                                         *)
(* A DataFrame is a sequence of records (one record per row, one field per *)
(* column).  The index produced by set_index is the field "index".         *)
(***************************************************************************)
EXTENDS Integers, Sequences, FiniteSets, TLC

VARIABLES
    disk_circuits,      \* content of data/processed/circuits.csv
    disk_drivers,       \* content of data/processed/drivers.csv
    quicksort_ties,     \* where this build's argsort(kind="quicksort") leaves equal keys
    cache,              \* st.cache_data memo: one entry per loader, <<>> or <<table>>
    reads,              \* number of pd.read_csv calls made per file
    selected_year,      \* value of the sidebar selectbox
    pc,                 \* position of the script run
    err,                \* exception that ended the current run ("none" if none)
    circuits,           \* script variable, line 193
    drivers,            \* script variable, line 194
    filtered_circuits,  \* script variable, line 203
    filtered_drivers,   \* script variable, line 204 (sorted in place at line 117)
    rankings,           \* script variable, line 205 (gets a column at line 150)
    page,               \* elements the current run has put on the page
    selected_circuit,   \* circuit get_circuit_rankings was asked for ("" if none)
    circuit_rankings,   \* result of get_circuit_rankings, <<>> or <<table>>
    circuit_err         \* exception raised by get_circuit_rankings

vars == <<disk_circuits, disk_drivers, quicksort_ties, cache, reads, selected_year,
          pc, err, circuits, drivers, filtered_circuits, filtered_drivers, rankings,
          page, selected_circuit, circuit_rankings, circuit_err>>

-----------------------------------------------------------------------------
(* Program constants and the bounds of the input data.                     *)

START_YEAR == 1950
END_YEAR == 2023

\* longest drivers table put on disk
MaxRows == 2
\* longest circuits table put on disk
MaxCircuits == 1

\* years that occur in the data files; START_YEAR never does
DataYears == {END_YEAR - 1, END_YEAR}
\* years the user picks in the selectbox (a subset of START_YEAR..END_YEAR)
YearInputs == {START_YEAR, END_YEAR - 1, END_YEAR}
Rounds == {1, 2}
PointValues == {0, 1}
Codes == {"HAM", "VER"}
CircuitNames == {"Monza", "Spa"}

Forename(code) == IF code = "HAM" THEN "Lewis" ELSE "Max"
Surname(code) == IF code = "HAM" THEN "Hamilton" ELSE "Verstappen"
Number(code) == IF code = "HAM" THEN 44 ELSE 33
Country(name) == IF name = "Monza" THEN "Italy" ELSE "Belgium"
Lat(name) == IF name = "Monza" THEN 45 ELSE 50
Lng(name) == IF name = "Monza" THEN 9 ELSE 6

SeqsUpTo(S, n) == UNION {[1..k -> S] : k \in 0..n}

\* A results row before its standing is known.
RawDriverRows ==
    [year : DataYears, round : Rounds, code : Codes, points : PointValues]

\* spec.md section 3: within a (year, round) position values are unique and rank
\* by descending points, ties broken by source order.
PositionOf(t, i) ==
    1 + Cardinality({j \in 1..Len(t) :
            /\ t[j].year = t[i].year
            /\ t[j].round = t[i].round
            /\ \/ t[j].points > t[i].points
               \/ t[j].points = t[i].points /\ j < i})

DriverRecord(t, i) ==
    [year |-> t[i].year, round |-> t[i].round, code |-> t[i].code,
     forename |-> Forename(t[i].code), surname |-> Surname(t[i].code),
     number |-> Number(t[i].code), points |-> t[i].points,
     position |-> PositionOf(t, i)]

\* The rounds of a season are numbered from 1 without a gap.
Contiguous(u) ==
    \A i \in 1..Len(u) : \A r \in 1..u[i].round :
        \E j \in 1..Len(u) : u[j].year = u[i].year /\ u[j].round = r

\* One row per driver per race.
DriverTables ==
    {[i \in 1..Len(t) |-> DriverRecord(t, i)] :
        t \in {u \in SeqsUpTo(RawDriverRows, MaxRows) :
                /\ \A i, j \in 1..Len(u) :
                    (u[i].year = u[j].year /\ u[i].round = u[j].round
                        /\ u[i].code = u[j].code) => i = j
                /\ Contiguous(u)}}

CircuitRecord(y, r, n) ==
    [year |-> y, round |-> r, name |-> n, country |-> Country(n),
     lat |-> Lat(n), lng |-> Lng(n)]

CircuitRows == {CircuitRecord(y, r, n) : y \in DataYears, r \in Rounds, n \in CircuitNames}

\* One row per race event: (year, round) is unique.
CircuitTables ==
    {u \in SeqsUpTo(CircuitRows, MaxCircuits) :
        /\ \A i, j \in 1..Len(u) :
            (u[i].year = u[j].year /\ u[i].round = u[j].round) => i = j
        /\ Contiguous(u)}

-----------------------------------------------------------------------------
(* pandas / numpy primitives used by the script.                           *)

\* Series.max() skips nothing here and gives NaN on an empty column.  A column
\* value is compared against the result with Eq; NaN equals no value.
NaN == {}

SeriesMax(df, col) ==
    IF Len(df) = 0 THEN NaN
    ELSE {CHOOSE m \in {df[i][col] : i \in 1..Len(df)} :
            \A i \in 1..Len(df) : df[i][col] <= m}

\* column == value, a comparison that is False on every row when value is NaN
Eq(x, value) == x \in value

\* DataFrame.sort_values(by=col, ascending=asc) with the default kind="quicksort".
\* The result is ordered by the key; numpy documents quicksort as not stable, so
\* the order of rows with equal keys is the build's: quicksort_ties says whether
\* they keep the source order ("source") or come out the other way ("reversed").
Precedes(df, col, asc, j, i) ==
    \/ IF asc THEN df[j][col] < df[i][col] ELSE df[j][col] > df[i][col]
    \/ /\ df[j][col] = df[i][col]
       /\ IF quicksort_ties = "source" THEN j < i ELSE j > i

sort_values(df, col, asc) ==
    [k \in 1..Len(df) |->
        df[CHOOSE i \in 1..Len(df) :
            Cardinality({j \in 1..Len(df) : Precedes(df, col, asc, j, i)}) = k - 1]]

\* DataFrame.set_index(col): the column leaves the columns and becomes the index.
set_index(df, col) ==
    [k \in 1..Len(df) |->
        [f \in (DOMAIN df[k] \ {col}) \cup {"index"} |->
            IF f = "index" THEN df[k][col] ELSE df[k][f]]]

\* df[col] = values: the frame gets (or overwrites) a column.
assign(df, col, values) ==
    [k \in 1..Len(df) |->
        [f \in DOMAIN df[k] \cup {col} |-> IF f = col THEN values[k] ELSE df[k][f]]]

\* DataFrame.head(1)
head1(df) == SubSeq(df, 1, IF Len(df) < 1 THEN Len(df) ELSE 1)

-----------------------------------------------------------------------------
(* Loaders: st.cache_data keeps the value of the first call and hands out  *)
(* a copy of it on every call, so pd.read_csv runs on a cache miss only.   *)

get_circuit_data ==
    IF cache.circuits = <<>>
    THEN [value |-> disk_circuits, memo |-> <<disk_circuits>>, read |-> 1]
    ELSE [value |-> cache.circuits[1], memo |-> cache.circuits, read |-> 0]

\* The loader without its memo: every run reads the file again.
get_driver_data_uncached ==
    [value |-> disk_drivers, memo |-> cache.drivers, read |-> 1]

\* The loader handing out the memoized table itself, which an earlier run has
\* sorted by round in place, instead of a copy of what was read.
get_driver_data_shared ==
    IF cache.drivers = <<>>
    THEN [value |-> disk_drivers, memo |-> <<disk_drivers>>, read |-> 1]
    ELSE [value |-> sort_values(cache.drivers[1], "round", TRUE),
          memo |-> cache.drivers, read |-> 0]

get_driver_data ==
    IF cache.drivers = <<>>
    THEN [value |-> disk_drivers, memo |-> <<disk_drivers>>, read |-> 1]
    ELSE [value |-> cache.drivers[1], memo |-> cache.drivers, read |-> 0]

-----------------------------------------------------------------------------
(* Helper functions of the script.                                         *)

\* The filter with >= in place of ==.
filter_year_from(data, year) == SelectSeq(data, LAMBDA row : row.year >= year)

filter_year(data, year) == SelectSeq(data, LAMBDA row : row.year = year)

\* The rankings taken at the first round instead of the last.
get_season_rankings_first_round(drv) ==
    LET m == IF Len(drv) = 0 THEN NaN
             ELSE {CHOOSE r \in {drv[i].round : i \in 1..Len(drv)} :
                        \A i \in 1..Len(drv) : r <= drv[i].round}
        first == SelectSeq(drv, LAMBDA row : Eq(row.round, m))
    IN  set_index(sort_values(first, "points", FALSE), "position")

get_season_rankings(drv) ==
    LET m == SeriesMax(drv, "round")
        last == SelectSeq(drv, LAMBDA row : Eq(row.round, m))
    IN  set_index(sort_values(last, "points", FALSE), "position")

\* circuits[circuits["name"] == selection]["round"].values[0] raises IndexError
\* when no circuit has that name.
get_circuit_rankings(drv, circ, selection) ==
    LET named == SelectSeq(circ, LAMBDA row : row.name = selection)
    IN  IF Len(named) = 0
        THEN [raised |-> "IndexError", value |-> <<>>]
        ELSE LET rnd_num == named[1].round
                 at == SelectSeq(drv, LAMBDA row : row.round = rnd_num)
             IN  [raised |-> "none",
                  value |-> <<set_index(sort_values(at, "points", FALSE), "position")>>]

-----------------------------------------------------------------------------
(* Display functions.  Each gives what it raises and the element it puts   *)
(* on the page; those that change their argument in place give it too.     *)

\* winner['forename'].values[0] on the empty head of an empty table raises
\* IndexError: index 0 is out of bounds for axis 0 with size 0.
show_winner_text(rk) ==
    LET winner == head1(rk)
    IN  IF Len(winner) = 0
        THEN [raised |-> "IndexError", markdown |-> <<>>]
        ELSE [raised |-> "none",
              markdown |-> <<[label |-> "Winner:",
                  winner_name |-> winner[1].forename \o " " \o winner[1].surname,
                  winner_number |-> "[" \o ToString(winner[1].number) \o "]"]>>]

show_world_map(circ) ==
    [k \in 1..Len(circ) |->
        [lat |-> circ[k].lat, lon |-> circ[k].lng, hover_name |-> circ[k].name,
         color |-> circ[k].country, text |-> circ[k].round]]

\* sort_values is not in place here: the caller's table is left as it is.
show_races(circ) ==
    LET sorted == set_index(sort_values(circ, "round", TRUE), "round")
    IN  [k \in 1..Len(sorted) |->
            [index |-> sorted[k].index, name |-> sorted[k].name,
             country |-> sorted[k].country]]

\* drivers.sort_values(inplace=True) and drivers["name"] = ... change the table
\* the caller passed.
show_driver_progression(drv, codes) ==
    LET sorted == sort_values(drv, "round", TRUE)
        named == assign(sorted, "name",
                    [k \in 1..Len(sorted) |->
                        sorted[k].forename \o " " \o sorted[k].surname])
    IN  [drivers |-> named,
         line |-> [data |-> [k \in 1..Len(named) |->
                        [x |-> named[k].round, y |-> named[k].points,
                         color |-> named[k].code, hover |-> named[k].name]],
                   category_orders |-> codes]]

\* The bar chart with the annotation loop missing its test on the points.
show_driver_points_annotate_all(rk) ==
    LET named == assign(rk, "name",
                    [k \in 1..Len(rk) |->
                        ToString(rk[k].index) \o ". " \o rk[k].forename
                            \o " " \o rk[k].surname])
    IN  [rankings |-> named,
         bar |-> [bars |-> [k \in 1..Len(named) |->
                        [x |-> named[k].points, y |-> named[k].code,
                         color |-> named[k].code, text |-> named[k].name]],
                  annotations |-> [k \in 1..Len(named) |->
                        [x |-> 0, y |-> named[k].code, text |-> named[k].name,
                         showarrow |-> FALSE, xanchor |-> "left"]]]]

\* rankings["name"] = ... changes the table the caller passed; px.bar(text="name")
\* labels every bar; the loop adds an annotation for each row with points == 0.
show_driver_points(rk) ==
    LET named == assign(rk, "name",
                    [k \in 1..Len(rk) |->
                        ToString(rk[k].index) \o ". " \o rk[k].forename
                            \o " " \o rk[k].surname])
        zero == SelectSeq(named, LAMBDA row : row.points = 0)
    IN  [rankings |-> named,
         bar |-> [bars |-> [k \in 1..Len(named) |->
                        [x |-> named[k].points, y |-> named[k].code,
                         color |-> named[k].code, text |-> named[k].name]],
                  annotations |-> [k \in 1..Len(zero) |->
                        [x |-> 0, y |-> zero[k].code, text |-> zero[k].name,
                         showarrow |-> FALSE, xanchor |-> "left"]]]]

-----------------------------------------------------------------------------
(* The script run.  pc names the statement the run executes next; at       *)
(* "idle" the run is over and the page waits for the year selector.        *)

NoPage == [title |-> <<>>, races |-> <<>>, winner |-> <<>>, map |-> <<>>,
           line |-> <<>>, bar |-> <<>>]

Init ==
    /\ disk_circuits \in CircuitTables
    /\ disk_drivers \in DriverTables
    /\ quicksort_ties \in {"source", "reversed"}
    /\ cache = [circuits |-> <<>>, drivers |-> <<>>]
    /\ reads = [circuits |-> 0, drivers |-> 0]
    /\ selected_year = END_YEAR
    /\ pc = "start"
    /\ err = "none"
    /\ circuits = <<>>
    /\ drivers = <<>>
    /\ filtered_circuits = <<>>
    /\ filtered_drivers = <<>>
    /\ rankings = <<>>
    /\ page = NoPage
    /\ selected_circuit = ""
    /\ circuit_rankings = <<>>
    /\ circuit_err = "none"

\* lines 193-214: the cached loads, the tables of the selected year, the
\* rankings, the title and the sidebar table of races.
Start ==
    /\ pc = "start"
    /\ circuits' = get_circuit_data.value
    /\ drivers' = get_driver_data.value
    /\ cache' = [circuits |-> get_circuit_data.memo, drivers |-> get_driver_data.memo]
    /\ reads' = [circuits |-> reads.circuits + get_circuit_data.read,
                 drivers |-> reads.drivers + get_driver_data.read]
    /\ filtered_circuits' = filter_year(circuits', selected_year)
    /\ filtered_drivers' = filter_year(drivers', selected_year)
    /\ rankings' = get_season_rankings(filtered_drivers')
    /\ page' = [page EXCEPT
                    !.title = <<"Formula 1 Season " \o ToString(selected_year)>>,
                    !.races = <<show_races(filtered_circuits')>>]
    /\ pc' = "winner"
    /\ UNCHANGED <<disk_circuits, disk_drivers, quicksort_ties, selected_year, err,
                   selected_circuit, circuit_rankings, circuit_err>>

\* line 216.  An exception ends the run: Streamlit shows it in place of the
\* rest of the page.
ShowWinnerText ==
    /\ pc = "winner"
    /\ LET r == show_winner_text(rankings)
       IN  IF r.raised = "none"
           THEN /\ page' = [page EXCEPT !.winner = r.markdown]
                /\ pc' = "map"
                /\ err' = err
           ELSE /\ page' = page
                /\ pc' = "idle"
                /\ err' = r.raised
    /\ UNCHANGED <<disk_circuits, disk_drivers, quicksort_ties, cache, reads,
                   selected_year, circuits, drivers, filtered_circuits,
                   filtered_drivers, rankings, selected_circuit, circuit_rankings,
                   circuit_err>>

\* line 217
ShowWorldMap ==
    /\ pc = "map"
    /\ page' = [page EXCEPT !.map = <<show_world_map(filtered_circuits)>>]
    /\ pc' = "progression"
    /\ UNCHANGED <<disk_circuits, disk_drivers, quicksort_ties, cache, reads,
                   selected_year, err, circuits, drivers, filtered_circuits,
                   filtered_drivers, rankings, selected_circuit, circuit_rankings,
                   circuit_err>>

\* lines 221-226: the table passed is filtered_drivers, which the call changes
ShowDriverProgression ==
    /\ pc = "progression"
    /\ LET r == show_driver_progression(filtered_drivers,
                    [k \in 1..Len(rankings) |-> rankings[k].code])
       IN  /\ filtered_drivers' = r.drivers
           /\ page' = [page EXCEPT !.line = <<r.line>>]
    /\ pc' = "points"
    /\ UNCHANGED <<disk_circuits, disk_drivers, quicksort_ties, cache, reads,
                   selected_year, err, circuits, drivers, filtered_circuits,
                   rankings, selected_circuit, circuit_rankings, circuit_err>>

\* lines 227-232: the table passed is rankings, which the call changes
ShowDriverPoints ==
    /\ pc = "points"
    /\ LET r == show_driver_points(rankings)
       IN  /\ rankings' = r.rankings
           /\ page' = [page EXCEPT !.bar = <<r.bar>>]
    /\ pc' = "idle"
    /\ UNCHANGED <<disk_circuits, disk_drivers, quicksort_ties, cache, reads,
                   selected_year, err, circuits, drivers, filtered_circuits,
                   filtered_drivers, selected_circuit, circuit_rankings, circuit_err>>

\* lines 196-201: the user picks another year and Streamlit reruns the script
\* in a fresh namespace, building the page anew.
SelectYear(y) ==
    /\ pc = "idle"
    /\ y # selected_year
    /\ selected_year' = y
    /\ pc' = "start"
    /\ err' = "none"
    /\ circuits' = <<>>
    /\ drivers' = <<>>
    /\ filtered_circuits' = <<>>
    /\ filtered_drivers' = <<>>
    /\ rankings' = <<>>
    /\ page' = NoPage
    /\ selected_circuit' = ""
    /\ circuit_rankings' = <<>>
    /\ circuit_err' = "none"
    /\ UNCHANGED <<disk_circuits, disk_drivers, quicksort_ties, cache, reads>>

\* lines 235-244 (disabled in the script): the rankings of one circuit, asked
\* for once the page is rendered.
CircuitRankings(selection) ==
    /\ pc = "idle"
    /\ err = "none"
    /\ selected_circuit = ""
    /\ selected_circuit' = selection
    /\ LET r == get_circuit_rankings(filtered_drivers, filtered_circuits, selection)
       IN  /\ circuit_rankings' = r.value
           /\ circuit_err' = r.raised
    /\ UNCHANGED <<disk_circuits, disk_drivers, quicksort_ties, cache, reads,
                   selected_year, pc, err, circuits, drivers, filtered_circuits,
                   filtered_drivers, rankings, page>>

Next ==
    \/ Start
    \/ ShowWinnerText
    \/ ShowWorldMap
    \/ ShowDriverProgression
    \/ ShowDriverPoints
    \/ \E y \in YearInputs : SelectYear(y)
    \/ \E selection \in CircuitNames : CircuitRankings(selection)

Spec == Init /\ [][Next]_vars

-----------------------------------------------------------------------------
(* Properties.                                                             *)

\* The run has filtered the tables and derived the rankings, and no display
\* function has changed filtered_drivers or rankings yet.
Derived == pc \in {"winner", "map", "progression"}

\* The run went through every display function.
Rendered == pc = "idle" /\ err = "none"

\* The rankings row of a results row: its position is the key.
Keyed(row) ==
    [index |-> row.position, year |-> row.year, round |-> row.round,
     code |-> row.code, forename |-> row.forename, surname |-> row.surname,
     number |-> row.number, points |-> row.points]

LastRound(drv) ==
    CHOOSE r \in {drv[i].round : i \in 1..Len(drv)} :
        \A i \in 1..Len(drv) : drv[i].round <= r

\* C1: for a non-empty table of driver rows, get_season_rankings returns exactly
\* the rows of the greatest round present, each once, keyed by its position,
\* with points that never increase from one row to the next.
SeasonRankingsExact ==
    (Derived /\ Len(filtered_drivers) > 0) =>
        LET last == {i \in 1..Len(filtered_drivers) :
                        filtered_drivers[i].round = LastRound(filtered_drivers)}
        IN  /\ Len(rankings) = Cardinality(last)
            /\ \A i \in last :
                Cardinality({k \in 1..Len(rankings) :
                    rankings[k] = Keyed(filtered_drivers[i])}) = 1
            /\ \A k \in 1..Len(rankings) - 1 :
                rankings[k].points >= rankings[k + 1].points

\* C1 witness: a season of two rounds, of which only the last one is ranked.
SeasonRankingsExactWitness ==
    /\ pc = "winner"
    /\ Len(filtered_drivers) = 2
    /\ Len(rankings) = 1
    /\ filtered_drivers[1].round > filtered_drivers[2].round

NoRowsOf(year) ==
    /\ \A i \in 1..Len(disk_drivers) : disk_drivers[i].year # year
    /\ \A i \in 1..Len(disk_circuits) : disk_circuits[i].year # year

\* C2: for a selected year of which the tables hold no rows, the filtered tables
\* are empty and the run goes through every display function without raising.
AbsentYearRenders ==
    (pc = "idle" /\ NoRowsOf(selected_year)) =>
        /\ filtered_drivers = <<>>
        /\ filtered_circuits = <<>>
        /\ err = "none"

\* C3: show_winner_text on rankings without rows fails with EmptyRankings, not
\* with the indexing error of reading element 0 of an empty column.
EmptyRankingsError ==
    (pc = "idle" /\ Len(rankings) = 0) => err = "EmptyRankings"

\* Index in table drv of the results row that rankings row r was made from.
SourceIndex(drv, r) ==
    CHOOSE i \in 1..Len(drv) :
        drv[i].year = r.year /\ drv[i].round = r.round /\ drv[i].code = r.code

StableOn(rk, drv) ==
    \A k1, k2 \in 1..Len(rk) :
        (k1 < k2 /\ rk[k1].points = rk[k2].points) =>
            SourceIndex(drv, rk[k1]) < SourceIndex(drv, rk[k2])

\* C4: in the season rankings and in the circuit rankings, rows with equal
\* points keep the relative order they had in the input table.
RankingsStable ==
    /\ Derived => StableOn(rankings, filtered_drivers)
    /\ (Rendered /\ circuit_rankings # <<>>) =>
            StableOn(circuit_rankings[1], filtered_drivers)

\* C5: get_circuit_rankings takes the round of the first circuit with the given
\* name and returns what get_season_rankings gives on the driver rows of that
\* round; without a circuit of that name it fails with NotFound.
CircuitRankingsContract ==
    (Rendered /\ selected_circuit # "") =>
        LET named == {i \in 1..Len(filtered_circuits) :
                        filtered_circuits[i].name = selected_circuit}
        IN  IF named = {}
            THEN circuit_err = "NotFound"
            ELSE LET first == CHOOSE i \in named : \A j \in named : i <= j
                     rnd == filtered_circuits[first].round
                 IN  /\ circuit_err = "none"
                     /\ circuit_rankings = <<get_season_rankings(
                            SelectSeq(filtered_drivers, LAMBDA row : row.round = rnd))>>

\* out holds exactly the rows of table in whose year is y, in the order of in
IsYearFilterOf(out, in, y) ==
    /\ \A k \in 1..Len(out) : out[k].year = y
    /\ Len(out) = Cardinality({i \in 1..Len(in) : in[i].year = y})
    /\ \E f \in [1..Len(out) -> 1..Len(in)] :
        /\ \A k \in 1..Len(out) : in[f[k]] = out[k]
        /\ \A k1, k2 \in 1..Len(out) : k1 < k2 => f[k1] < f[k2]

\* C6: filter_year returns exactly the rows of its input whose year is the given
\* year, in input order (none when no row matches), and leaves its input as it
\* was loaded.
FilterYearExact ==
    Derived =>
        /\ IsYearFilterOf(filtered_drivers, drivers, selected_year)
        /\ IsYearFilterOf(filtered_circuits, circuits, selected_year)
        /\ drivers = disk_drivers
        /\ circuits = disk_circuits

\* C6 witness: the filter kept one of two driver rows.
FilterYearExactWitness ==
    /\ pc = "winner"
    /\ Len(drivers) = 2
    /\ Len(filtered_drivers) = 1

Label(r) == ToString(r.index) \o ". " \o r.forename \o " " \o r.surname

AnnotationsOn(bar, code) ==
    {a \in 1..Len(bar.annotations) : bar.annotations[a].y = code}

\* C7, as claimed: a row with 0 points has exactly one annotation at x = 0 on its
\* code, with the text "position. forename surname", and no inline bar label; a
\* row with points has an inline bar label and no annotation.
ZeroPointsAnnotatedNotLabelled ==
    Rendered =>
        LET bar == page.bar[1]
        IN  \A k \in 1..Len(rankings) :
                IF rankings[k].points = 0
                THEN /\ Cardinality(AnnotationsOn(bar, rankings[k].code)) = 1
                     /\ \A a \in AnnotationsOn(bar, rankings[k].code) :
                            /\ bar.annotations[a].x = 0
                            /\ bar.annotations[a].text = Label(rankings[k])
                     /\ bar.bars[k].text = ""
                ELSE /\ AnnotationsOn(bar, rankings[k].code) = {}
                     /\ bar.bars[k].text = Label(rankings[k])

\* C7, amended: every row, with points or without, has the inline bar label
\* "position. forename surname"; a row with 0 points has in addition exactly one
\* annotation at x = 0 on its code with that text; a row with points has none.
ZeroPointsAnnotated ==
    Rendered =>
        LET bar == page.bar[1]
        IN  /\ Len(bar.bars) = Len(rankings)
            /\ \A k \in 1..Len(rankings) :
                /\ bar.bars[k].y = rankings[k].code
                /\ bar.bars[k].x = rankings[k].points
                /\ bar.bars[k].text = Label(rankings[k])
                /\ IF rankings[k].points = 0
                   THEN /\ Cardinality(AnnotationsOn(bar, rankings[k].code)) = 1
                        /\ \A a \in AnnotationsOn(bar, rankings[k].code) :
                            /\ bar.annotations[a].x = 0
                            /\ bar.annotations[a].text = Label(rankings[k])
                   ELSE AnnotationsOn(bar, rankings[k].code) = {}

\* C7 witness: the final standings hold a driver with points and one without.
ZeroPointsAnnotatedWitness ==
    /\ Rendered
    /\ Len(rankings) = 2
    /\ rankings[1].points > 0
    /\ rankings[2].points = 0

\* C8: each file is read at most once, and neither the memoized tables nor the
\* tables the loaders hand to the run are changed by any step of a run.
SourceTablesUntouched ==
    /\ reads.circuits <= 1
    /\ reads.drivers <= 1
    /\ cache.circuits # <<>> => cache.circuits = <<disk_circuits>>
    /\ cache.drivers # <<>> => cache.drivers = <<disk_drivers>>
    /\ pc # "start" =>
        /\ circuits = disk_circuits
        /\ drivers = disk_drivers
        /\ reads = [circuits |-> 1, drivers |-> 1]

\* C8 witness: a later run has sorted its filtered table in place into another
\* order and added the name column, with the file read once.
SourceTablesUntouchedWitness ==
    /\ Rendered
    /\ selected_year = END_YEAR - 1
    /\ reads.drivers = 1
    /\ Len(filtered_drivers) = 2
    /\ "name" \in DOMAIN filtered_drivers[1]
    /\ "name" \in DOMAIN rankings[1]
    /\ filtered_drivers[1].code = disk_drivers[2].code
    /\ filtered_drivers[1].round < filtered_drivers[2].round

\* C9: the winner banner shows the row keyed by position 1, and the position
\* keys of the season rankings are exactly 1..n.
WinnerIsPositionOne ==
    Rendered =>
        /\ {rankings[k].index : k \in 1..Len(rankings)} = 1..Len(rankings)
        /\ \E k \in 1..Len(rankings) :
            /\ rankings[k].index = 1
            /\ page.winner[1].winner_name =
                    rankings[k].forename \o " " \o rankings[k].surname
            /\ page.winner[1].winner_number =
                    "[" \o ToString(rankings[k].number) \o "]"

\* What a run for year y leaves when it is the first run of a process: nothing
\* but the files and y goes into it.
FirstRun(y) ==
    LET fc == filter_year(disk_circuits, y)
        fd == filter_year(disk_drivers, y)
        rk == get_season_rankings(fd)
        w == show_winner_text(rk)
        top == [NoPage EXCEPT !.title = <<"Formula 1 Season " \o ToString(y)>>,
                              !.races = <<show_races(fc)>>]
    IN  IF w.raised # "none"
        THEN [err |-> w.raised, page |-> top, filtered_circuits |-> fc,
              filtered_drivers |-> fd, rankings |-> rk]
        ELSE LET p == show_driver_progression(fd, [k \in 1..Len(rk) |-> rk[k].code])
                 b == show_driver_points(rk)
             IN  [err |-> "none",
                  page |-> [top EXCEPT !.winner = w.markdown,
                                       !.map = <<show_world_map(fc)>>,
                                       !.line = <<p.line>>,
                                       !.bar = <<b.bar>>],
                  filtered_circuits |-> fc,
                  filtered_drivers |-> p.drivers,
                  rankings |-> b.rankings]

\* C10: whatever years were selected before, a finished run for the selected
\* year leaves the filtered tables, the rankings, the page and the error that
\* the first run of a process leaves for that year.
RenderDependsOnYearOnly ==
    pc = "idle" =>
        [err |-> err, page |-> page, filtered_circuits |-> filtered_circuits,
         filtered_drivers |-> filtered_drivers, rankings |-> rankings]
            = FirstRun(selected_year)

\* C10 witness: a year selected after the default one is rendered in full.
RenderDependsOnYearOnlyWitness ==
    /\ Rendered
    /\ selected_year = END_YEAR - 1
    /\ Len(page.bar[1].bars) = 2
    /\ Len(page.line[1].data) = 2

====
